---- MODULE Spec2Model ----
(***************************************************************************)
(* A model of the JSON scanner of parser.go: the scanner primitives, the   *)
(* key-path search loop, GetValue, Get and ArrayEach.                      *)
(*                                                                         *)
(* A byte buffer is a sequence of one-character strings. Indices are the   *)
(* 0-based indices of the Go code: At(d, i) is d[i], Slice(d, lo, hi) is   *)
(* d[lo:hi]. The "not found" sentinel of the primitives is -1.             *)
(***************************************************************************)
EXTENDS Integers, Sequences, FiniteSets, TLC

VARIABLES
    data,           \* the caller's buffer
    keys,           \* the key path: a sequence of keys, each a byte sequence
    doc,            \* the tree and whitespace style data was rendered from
    pc,             \* where the call stands
    i,              \* searchKeys: the cursor
    level,          \* searchKeys: the current {} nesting depth
    keyLevel,       \* searchKeys: how many path segments matched
    offset,         \* Get: the named result offset
    ret,            \* what Get returned
    re,             \* what GetValue returned for the slice Get returned
    offsetInArray,  \* ArrayEach: the cursor inside arrayValue
    calls,          \* ArrayEach: the visitor's invocations, in order
    aeErr           \* ArrayEach: the error returned ("running" until it returns)

vars == <<data, keys, doc, pc, i, level, keyLevel, offset, ret, re,
          offsetInArray, calls, aeErr>>

----------------------------------------------------------------------------
(* Bytes and slices *)

QUOTE == "\""
BACKSLASH == "\\"
SPACE == " "

At(d, n) == d[n + 1]

Slice(d, lo, hi) == SubSeq(d, lo + 1, hi)

From(d, lo) == SubSeq(d, lo + 1, Len(d))

Whitespace == {" ", "\n", "\r", "\t"}

TokenTerminators == Whitespace \cup {",", "}", "]"}

Digits == {"0", "1", "2", "3", "4", "5", "6", "7", "8", "9"}

----------------------------------------------------------------------------
(* Scanner primitives *)

RECURSIVE tokenEndFrom(_, _)
tokenEndFrom(d, n) ==
    IF n >= Len(d) THEN -1
    ELSE IF At(d, n) \in TokenTerminators THEN n
    ELSE tokenEndFrom(d, n + 1)

tokenEndEOF(d) == LET e == tokenEndFrom(d, 0) IN IF e = -1 THEN Len(d) ELSE e

tokenEnd(d) == tokenEndFrom(d, 0)

RECURSIVE nextTokenFrom(_, _)
nextTokenFrom(d, n) ==
    IF n >= Len(d) THEN -1
    ELSE IF At(d, n) \in Whitespace THEN nextTokenFrom(d, n + 1)
    ELSE n

nextToken(d) == nextTokenFrom(d, 0)

RECURSIVE nextArrayElementFrom(_, _, _)
nextArrayElementFrom(d, n, seenComma) ==
    IF n >= Len(d) THEN -1
    ELSE IF At(d, n) \in Whitespace THEN nextArrayElementFrom(d, n + 1, seenComma)
    ELSE IF At(d, n) = ","
         THEN IF seenComma THEN -1 ELSE nextArrayElementFrom(d, n + 1, TRUE)
    ELSE IF ~seenComma THEN -1 ELSE n

nextArrayElement(d) == nextArrayElementFrom(d, 0, FALSE)

\* A scanner that looks at one byte before the quote only.
quoteEscapedOneBack(d, j) == ~(j < 0 \/ At(d, j) # BACKSLASH)

\* The backward walk from the byte before a quote, j = i - 1: FALSE at the
\* first return (an even number of backslashes), TRUE at the break (odd).
RECURSIVE quoteEscaped(_, _)
quoteEscaped(d, j) ==
    IF j < 0 \/ At(d, j) # BACKSLASH THEN FALSE
    ELSE IF j - 1 < 0 \/ At(d, j - 1) # BACKSLASH THEN TRUE
    ELSE quoteEscaped(d, j - 2)

RECURSIVE stringEndFrom(_, _)
stringEndFrom(d, n) ==
    IF n >= Len(d) THEN -1
    ELSE IF At(d, n) = QUOTE /\ ~quoteEscaped(d, n - 1) THEN n + 1
    ELSE stringEndFrom(d, n + 1)

stringEnd(d) == stringEndFrom(d, 0)

\* A block end that stops on the closing symbol instead of one past it.
blockClosedOnCloser(n) == n

\* blockEnd's result when the level returns to 0 at index n.
blockClosed(n) == n + 1

RECURSIVE blockEndFrom(_, _, _, _, _)
blockEndFrom(d, openSym, closeSym, n, lvl) ==
    IF n >= Len(d) THEN -1
    ELSE IF At(d, n) = QUOTE
         THEN LET se == stringEnd(From(d, n + 1))
              IN  IF se = -1 THEN -1
                  ELSE blockEndFrom(d, openSym, closeSym, n + se + 1, lvl)
    ELSE IF At(d, n) = openSym
         THEN blockEndFrom(d, openSym, closeSym, n + 1, lvl + 1)
    ELSE IF At(d, n) = closeSym
         THEN IF lvl - 1 = 0 THEN blockClosed(n)
              ELSE blockEndFrom(d, openSym, closeSym, n + 1, lvl - 1)
    ELSE blockEndFrom(d, openSym, closeSym, n + 1, lvl)

blockEnd(d, openSym, closeSym) == blockEndFrom(d, openSym, closeSym, 0, 0)

----------------------------------------------------------------------------
(* Results *)

\* A result of Get or GetValue. A slice is its bytes; isNil tells Go's nil
\* slice from an empty one.
Result(v, n, t, o, e) ==
    [value |-> v, isNil |-> n, dataType |-> t, offset |-> o, err |-> e]

Failure(t, e) == Result(<<>>, TRUE, t, -1, e)

NoResult == Result(<<>>, TRUE, "none", 0, "none")

trueLiteral == <<"t", "r", "u", "e">>
falseLiteral == <<"f", "a", "l", "s", "e">>
nullLiteral == <<"n", "u", "l", "l">>

GetValue(d) ==
    IF Len(d) = 0 THEN Failure("Unknown", "UnknownValueTypeError")
    ELSE IF At(d, 0) = QUOTE
         THEN LET se == stringEnd(From(d, 1))
              IN  IF se = -1 THEN Failure("Unknown", "MalformedStringError")
                  ELSE Result(Slice(d, 1, se), FALSE, "String", se + 1, "nil")
    ELSE IF At(d, 0) = "["
         THEN LET blockLen == blockEnd(d, "[", "]")
              IN  IF blockLen = -1 THEN Failure("Unknown", "MalformedArrayError")
                  ELSE Result(Slice(d, 0, blockLen), FALSE, "Array", blockLen, "nil")
    ELSE IF At(d, 0) = "{"
         THEN LET blockLen == blockEnd(d, "{", "}")
              IN  IF blockLen = -1 THEN Failure("Unknown", "MalformedObjectError")
                  ELSE Result(Slice(d, 0, blockLen), FALSE, "Object", blockLen, "nil")
    ELSE IF At(d, 0) \in {"t", "f", "n"}
         THEN LET tokenLen == tokenEnd(d)
              IN  IF tokenLen = -1 THEN Failure("Unknown", "MalformedLiteralError")
                  ELSE LET value == Slice(d, 0, tokenLen)
                       IN  IF value = nullLiteral
                           THEN Result(<<>>, TRUE, "Null", tokenLen, "nil")
                           ELSE IF value = trueLiteral \/ value = falseLiteral
                           THEN Result(value, FALSE, "Boolean", tokenLen, "nil")
                           ELSE Failure("Unknown", "UnknownValueTypeError")
    ELSE IF At(d, 0) \in Digits \cup {"-"}
         THEN LET tokenLen == tokenEnd(d)
              IN  IF tokenLen = -1 THEN Failure("Unknown", "MalformedNumberError")
                  ELSE Result(Slice(d, 0, tokenLen), FALSE, "Number", tokenLen, "nil")
    ELSE Failure("Unknown", "errors.New(Unknown value type)")

----------------------------------------------------------------------------
(* The inputs: well-formed documents rendered from trees, and raw bytes *)

MaxNodes == 4       \* a generated document has at most this many values
MaxRaw == 3         \* a raw buffer over RawAlphabet has at most this many bytes
MaxLevel == 24      \* searchKeys' level is followed up to this depth

Num(t) == [kind |-> "num", text |-> t, kids |-> <<>>]
Str(t) == [kind |-> "str", text |-> t, kids |-> <<>>]
Lit(t) == [kind |-> "lit", text |-> t, kids |-> <<>>]
Arr(ks) == [kind |-> "arr", text |-> <<>>, kids |-> ks]
Obj(ks) == [kind |-> "obj", text |-> <<>>, kids |-> ks]
NoTree == [kind |-> "none", text |-> <<>>, kids |-> <<>>]

\* A child of an array (key <<>>) or a member of an object.
Kid(k, v) == [key |-> k, val |-> v]
El(v) == Kid(<<>>, v)

Keys == {<<"a">>, <<"b">>}

KeyPaths == {<<>>} \cup {<<k>> : k \in Keys} \cup {<<k, l>> : k, l \in Keys}

Scalars == {Num(<<"4", "2">>), Str(<<"a">>)}

RECURSIVE TreesOfSize(_), ElemSeqs(_), MemberSeqs(_, _)
\* The trees of exactly n values; the members of an object have distinct keys.
TreesOfSize(n) ==
    (IF n = 1 THEN Scalars ELSE {})
    \cup {Arr(s) : s \in ElemSeqs(n - 1)}
    \cup {Obj(s) : s \in MemberSeqs(n - 1, Keys)}

ElemSeqs(m) ==
    IF m = 0 THEN {<<>>}
    ELSE UNION {{<<El(t)>> \o r : t \in TreesOfSize(j), r \in ElemSeqs(m - j)}
                : j \in 1..m}

MemberSeqs(m, ks) ==
    IF m = 0 THEN {<<>>}
    ELSE UNION {UNION {{<<Kid(k, t)>> \o r :
                            t \in TreesOfSize(j), r \in MemberSeqs(m - j, ks \ {k})}
                       : k \in ks}
                : j \in 1..m}

ExtraTrees == {
    Arr(<<El(Num(<<"1">>)), El(Num(<<"2">>)), El(Num(<<"3">>))>>),
    Arr(<<El(Lit(trueLiteral)), El(Lit(nullLiteral)), El(Lit(falseLiteral))>>),
    Obj(<<Kid(<<"a">>, Lit(trueLiteral)), Kid(<<"b">>, Lit(nullLiteral))>>),
    Obj(<<Kid(<<"a">>, Str(<<"]", BACKSLASH, QUOTE>>)), Kid(<<"b">>, Num(<<"-", "7">>))>>),
    Obj(<<Kid(<<"a">>, Obj(<<Kid(<<"x">>, Num(<<"1">>))>>)),
          Kid(<<"c">>, Obj(<<Kid(<<"b">>, Num(<<"2">>))>>))>>),
    Obj(<<Kid(<<"a">>, Arr(<<El(Obj(<<Kid(<<"b">>, Num(<<"1">>))>>))>>)),
          Kid(<<"b">>, Arr(<<El(Str(<<"a">>)), El(Arr(<<>>))>>))>>),
    Obj(<<Kid(<<"a">>, Arr(<<El(Num(<<"1">>)), El(Num(<<"2">>))>>))>>),
    Obj(<<Kid(<<"a">>, Arr(<<El(Obj(<<Kid(<<"b">>, Num(<<"1">>))>>))>>))>>),
    Obj(<<Kid(<<"a">>, Obj(<<Kid(<<"b">>, Num(<<"1">>))>>))>>),
    Lit(trueLiteral), Lit(nullLiteral), Str(<<>>)}

Trees == UNION {TreesOfSize(n) : n \in 1..MaxNodes} \cup ExtraTrees

\* The whitespace styles: 0 none; 1 two leading spaces and a space after
\* every bracket, separator, key and value.
Styles == {0, 1}

Lead(s) == IF s = 1 THEN <<SPACE, SPACE>> ELSE <<>>
AfterOpen(s) == IF s = 1 THEN <<SPACE>> ELSE <<>>
AfterSep(s) == IF s = 1 THEN <<SPACE>> ELSE <<>>
AfterVal(s) == IF s = 1 THEN <<SPACE>> ELSE <<>>

RECURSIVE Val(_, _), Items(_, _, _)
\* The text of a value, from its first byte to its last.
Val(t, s) ==
    CASE t.kind = "str" -> <<QUOTE>> \o t.text \o <<QUOTE>>
      [] t.kind = "arr" -> <<"[">> \o AfterOpen(s) \o Items(t.kids, s, 1) \o <<"]">>
      [] t.kind = "obj" -> <<"{">> \o AfterOpen(s) \o Items(t.kids, s, 1) \o <<"}">>
      [] OTHER -> t.text

Items(ks, s, n) ==
    IF n > Len(ks) THEN <<>>
    ELSE (IF n > 1 THEN <<",">> \o AfterSep(s) ELSE <<>>)
         \o (IF ks[n].key = <<>> THEN <<>>
             ELSE <<QUOTE>> \o ks[n].key \o <<QUOTE>> \o AfterVal(s)
                  \o <<":">> \o AfterSep(s))
         \o Val(ks[n].val, s) \o AfterVal(s)
         \o Items(ks, s, n + 1)

Text(t, s) == Lead(s) \o Val(t, s)

RawAlphabet == {"{", "[", "]", QUOTE, "a", ":"}

RECURSIVE RawOfLen(_)
RawOfLen(n) ==
    IF n = 0 THEN {<<>>}
    ELSE {<<c>> \o r : c \in RawAlphabet, r \in RawOfLen(n - 1)}

ExtraRaw == {
    <<"\"", "a", "b", "c">>,   \* "abc
    <<"[", "1", ",", ",", "2", "]">>,   \* [1,,2]
    <<"{", "\"", "a", "\"", ":", "[">>,   \* {"a":[
    <<"[", "x", "]">>,   \* [x]
    <<"[", "1", ",", "t", "r", "u", "]">>,   \* [1,tru]
    <<" ", " ", "4", "2", " ">>,   \*   42
    <<"4", "2", ",">>,   \* 42,
    <<"-", "7", "]">>,   \* -7]
    <<"x", "[">>,   \* x[
    <<"\"", "\"", "[", "\"", " ", ":">>,   \* ""[" :
    <<"{", "\"", "a", "\"", ":", "[", "1", ",", "2">>,   \* {"a":[1,2
    <<"{", "\"", "a", "\"", ":", "t", "r", "u", "}">>,   \* {"a":tru}
    <<"[", "1", ",", " ", "2", ",", " ", "3", "]">>,   \* [1, 2, 3]
    <<"{", "\"", "b", "\"", ":", "[", "1", ",", "x", "]", "}">>,   \* {"b":[1,x]}
    <<"{", "\"", "a", "\"", ":", "\"", "\\", "\"">>,   \* {"a":"\"
    <<"[", "1", " ", "2", "]">>,   \* [1 2]
    <<"{", "\"", "a", "\"", ":", " ", " ", " ">>,   \* {"a":
    <<"n", "u", "l", "l", " ">>   \* null
    }

Document(t, s) == [tree |-> t, style |-> s]

\* What a call can be given: a rendered document with the tree it came from,
\* or raw bytes with no tree.
Inputs ==
    {[doc |-> Document(t, s), data |-> Text(t, s)] : t \in Trees, s \in Styles}
    \cup {[doc |-> Document(NoTree, 0), data |-> b]
          : b \in UNION {RawOfLen(n) : n \in 0..MaxRaw} \cup ExtraRaw}

----------------------------------------------------------------------------
(* Get: the key-path search loop, one action per iteration *)

lk == Len(keys)
ln == Len(data)

Searching == pc = "searchKeys" /\ 0 <= i /\ i < ln

\* searchKeys returns r to Get, which returns not-found on -1 and goes on
\* to the value otherwise.
SearchKeysReturns(r) ==
    /\ offset' = r
    /\ IF r = -1
       THEN /\ pc' = "returned"
            /\ ret' = Failure("NotExist", "KeyPathNotFoundError")
       ELSE /\ pc' = "value"
            /\ ret' = ret

SearchKeysQuote ==
    /\ Searching
    /\ At(data, i) = QUOTE
    /\ LET keyBegin == i + 1
           strEnd == stringEnd(From(data, keyBegin))
           afterKey == keyBegin + strEnd
           keyEnd == afterKey - 1
           valueOffset == nextToken(From(data, afterKey))
           atToken == afterKey + valueOffset
           key == Slice(data, keyBegin, keyEnd)
       IN  IF strEnd = -1 \/ valueOffset = -1
           THEN SearchKeysReturns(-1) /\ UNCHANGED <<i, keyLevel>>
           ELSE IF At(data, atToken) = ":"
           THEN IF keyLevel = level - 1 /\ keys[level] = key
                THEN /\ keyLevel' = keyLevel + 1
                     /\ IF keyLevel + 1 = lk
                        THEN SearchKeysReturns(atToken + 1) /\ i' = atToken
                        ELSE i' = atToken + 1 /\ UNCHANGED <<pc, offset, ret>>
                ELSE i' = atToken + 1 /\ UNCHANGED <<keyLevel, pc, offset, ret>>
           ELSE i' = atToken /\ UNCHANGED <<keyLevel, pc, offset, ret>>
    /\ UNCHANGED <<data, keys, doc, level, re, offsetInArray, calls, aeErr>>

SearchKeysOpenBrace ==
    /\ Searching
    /\ At(data, i) = "{"
    /\ level < MaxLevel
    /\ level' = level + 1
    /\ i' = i + 1
    /\ UNCHANGED <<data, keys, doc, pc, keyLevel, offset, ret, re,
                   offsetInArray, calls, aeErr>>

SearchKeysCloseBrace ==
    /\ Searching
    /\ At(data, i) = "}"
    /\ level > -MaxLevel
    /\ level' = level - 1
    /\ i' = i + 1
    /\ UNCHANGED <<data, keys, doc, pc, keyLevel, offset, ret, re,
                   offsetInArray, calls, aeErr>>

\* A search that steps into the array instead of skipping it.
arraySkipNothing(d, n) == 1

\* The length of the array that starts at d[n], by blockEnd.
arraySkip(d, n) == blockEnd(From(d, n), "[", "]")

SearchKeysOpenBracket ==
    /\ Searching
    /\ At(data, i) = "["
    /\ i' = (i + (arraySkip(data, i) - 1)) + 1
    /\ UNCHANGED <<data, keys, doc, pc, level, keyLevel, offset, ret, re,
                   offsetInArray, calls, aeErr>>

SearchKeysOther ==
    /\ Searching
    /\ At(data, i) \notin {QUOTE, "{", "}", "["}
    /\ i' = i + 1
    /\ UNCHANGED <<data, keys, doc, pc, level, keyLevel, offset, ret, re,
                   offsetInArray, calls, aeErr>>

SearchKeysExhausted ==
    /\ pc = "searchKeys"
    /\ i >= ln
    /\ SearchKeysReturns(-1)
    /\ UNCHANGED <<data, keys, doc, i, level, keyLevel, re,
                   offsetInArray, calls, aeErr>>

\* data[i] with a negative i: the index is out of range and the call panics.
SearchKeysIndexPanic ==
    /\ pc = "searchKeys"
    /\ i < 0
    /\ pc' = "panic"
    /\ UNCHANGED <<data, keys, doc, i, level, keyLevel, offset, ret, re,
                   offsetInArray, calls, aeErr>>

\* An offset that forgets the base the value was scanned from.
innerOffset(base, valueOffset) == valueOffset

\* The offset Get returns: the base plus the offset inside data[base:].
resultOffset(base, valueOffset) == base + valueOffset

\* Get from "Go to closest value" to its return.
GetClosestValue ==
    /\ pc = "value"
    /\ LET skipToToken == nextToken(From(data, offset))
           base == offset + skipToToken
           v == GetValue(From(data, base))
       IN  ret' = IF skipToToken = -1
                  THEN Failure("Unknown", "errors.New(Malformed JSON error)")
                  ELSE IF v.err # "nil"
                  THEN Failure("Unknown", v.err)
                  ELSE Result(v.value, v.isNil, v.dataType,
                              resultOffset(base, v.offset), "nil")
    /\ offset' = ret'.offset
    /\ pc' = "returned"
    /\ UNCHANGED <<data, keys, doc, i, level, keyLevel, re,
                   offsetInArray, calls, aeErr>>

\* The caller hands the slice Get returned to GetValue.
GetValueOfSlice ==
    /\ pc = "returned"
    /\ ret.err = "nil"
    /\ re' = GetValue(ret.value)
    /\ pc' = "reparsed"
    /\ UNCHANGED <<data, keys, doc, i, level, keyLevel, offset, ret,
                   offsetInArray, calls, aeErr>>

----------------------------------------------------------------------------
(* ArrayEach, from the return of its call of Get *)

arrayValue == ret.value
arrayBeginOffset == ret.offset - Len(arrayValue)
endOffsetInArray == Len(arrayValue) - 1

\* One invocation of the visitor; begin is where the element started.
Call(v, o, b) ==
    [value |-> v.value, isNil |-> v.isNil, dataType |-> v.dataType,
     offset |-> o, err |-> v.err, begin |-> b]

ArrayEachReturns(e) ==
    /\ aeErr' = e
    /\ pc' = "done"

ArrayEachBegin ==
    /\ pc = "returned"
    /\ IF ret.err # "nil"
       THEN ArrayEachReturns(ret.err) /\ UNCHANGED offsetInArray
       ELSE IF ret.dataType # "Array"
       THEN ArrayEachReturns("ExpectedArrayError") /\ UNCHANGED offsetInArray
       ELSE LET skipToFirstValue == nextToken(From(arrayValue, 1))
            IN  IF skipToFirstValue = -1
                THEN ArrayEachReturns("MalformedArrayError") /\ UNCHANGED offsetInArray
                ELSE /\ offsetInArray' = 1 + skipToFirstValue
                     /\ pc' = "each"
                     /\ UNCHANGED aeErr
    /\ UNCHANGED <<data, keys, doc, i, level, keyLevel, offset, ret, re, calls>>

ArrayEachElement ==
    /\ pc = "each"
    /\ offsetInArray < endOffsetInArray
    /\ LET element == GetValue(From(arrayValue, offsetInArray))
           afterElement == offsetInArray + element.offset
           skipToNextValue == nextArrayElement(From(arrayValue, afterElement))
       IN  IF element.dataType = "NotExist"
           THEN /\ ArrayEachReturns("nil")
                /\ offsetInArray' = afterElement
                /\ UNCHANGED calls
           ELSE /\ calls' = Append(calls,
                                Call(element, arrayBeginOffset + afterElement,
                                     arrayBeginOffset + offsetInArray))
                /\ IF element.err # "nil"
                   THEN ArrayEachReturns("nil") /\ offsetInArray' = afterElement
                   ELSE IF skipToNextValue = -1
                   THEN ArrayEachReturns("MalformedArrayError")
                        /\ offsetInArray' = afterElement
                   ELSE /\ offsetInArray' = afterElement + skipToNextValue
                        /\ UNCHANGED <<pc, aeErr>>
    /\ UNCHANGED <<data, keys, doc, i, level, keyLevel, offset, ret, re>>

ArrayEachEnd ==
    /\ pc = "each"
    /\ offsetInArray >= endOffsetInArray
    /\ ArrayEachReturns("nil")
    /\ UNCHANGED <<data, keys, doc, i, level, keyLevel, offset, ret, re,
                   offsetInArray, calls>>

----------------------------------------------------------------------------
(* The specifications *)

Init ==
    /\ \E inp \in Inputs : data = inp.data /\ doc = inp.doc
    /\ keys \in KeyPaths
    /\ pc = IF Len(keys) > 0 THEN "searchKeys" ELSE "value"
    /\ i = 0
    /\ level = 0
    /\ keyLevel = 0
    /\ offset = 0
    /\ ret = NoResult
    /\ re = NoResult
    /\ offsetInArray = 0
    /\ calls = <<>>
    /\ aeErr = "running"

Next ==
    \/ SearchKeysQuote
    \/ SearchKeysOpenBrace
    \/ SearchKeysCloseBrace
    \/ SearchKeysOpenBracket
    \/ SearchKeysOther
    \/ SearchKeysExhausted
    \/ SearchKeysIndexPanic
    \/ GetClosestValue
    \/ GetValueOfSlice
    \/ ArrayEachBegin
    \/ ArrayEachElement
    \/ ArrayEachEnd

Spec == Init /\ [][Next]_vars

MaxFairRaw == 2     \* the raw buffers of FairSpec have at most this many bytes

\* The inputs the behaviours of FairSpec start from: the listed buffers and
\* documents and the shortest raw buffers.
FairInputs ==
    {[doc |-> Document(t, 0), data |-> Text(t, 0)] : t \in ExtraTrees}
    \cup {[doc |-> Document(NoTree, 0), data |-> b]
          : b \in UNION {RawOfLen(n) : n \in 0..MaxFairRaw} \cup ExtraRaw}

InitFair == Init /\ \E inp \in FairInputs : data = inp.data /\ doc = inp.doc

\* The call is sequential code: a step that can be taken is taken.
FairSpec == InitFair /\ [][Next]_vars /\ WF_vars(Next)

----------------------------------------------------------------------------
(* stringEnd on its own: every buffer over a quote, a backslash and a letter *)

MaxStr == 5         \* a buffer given to stringEnd has at most this many bytes

StringAlphabet == {QUOTE, BACKSLASH, "a"}

RECURSIVE StringsOfLen(_)
StringsOfLen(n) ==
    IF n = 0 THEN {<<>>}
    ELSE {<<c>> \o r : c \in StringAlphabet, r \in StringsOfLen(n - 1)}

InitStringEnd ==
    /\ data \in UNION {StringsOfLen(n) : n \in 0..MaxStr}
    /\ keys = <<>>
    /\ doc = Document(NoTree, 0)
    /\ pc = "stringEnd"
    /\ i = 0
    /\ level = 0
    /\ keyLevel = 0
    /\ offset = 0
    /\ ret = NoResult
    /\ re = NoResult
    /\ offsetInArray = 0
    /\ calls = <<>>
    /\ aeErr = "running"

\* stringEnd(data); the result is kept in offset.
StringEndCall ==
    /\ pc = "stringEnd"
    /\ offset' = stringEnd(data)
    /\ pc' = "stringEnd.done"
    /\ UNCHANGED <<data, keys, doc, i, level, keyLevel, ret, re,
                   offsetInArray, calls, aeErr>>

NextStringEnd == StringEndCall

SpecStringEnd == InitStringEnd /\ [][NextStringEnd]_vars

----------------------------------------------------------------------------
(* What the documents mean, read from the tree and not from the scanner *)

WellFormed == doc.tree.kind # "none"

GetReturned == ret # NoResult

HasMember(t, k) == t.kind = "obj" /\ \E n \in 1..Len(t.kids) : t.kids[n].key = k

Member(t, k) ==
    IF HasMember(t, k)
    THEN t.kids[CHOOSE n \in 1..Len(t.kids) : t.kids[n].key = k].val
    ELSE NoTree

RECURSIVE Lookup(_, _)
\* The value at a key path, by object membership only; NoTree when none.
Lookup(t, path) ==
    IF path = <<>> THEN t ELSE Lookup(Member(t, Head(path)), Tail(path))

\* The slice and type of a value of the document.
Extracted(t, s) ==
    CASE t.kind = "str" -> [value |-> t.text, isNil |-> FALSE, dataType |-> "String"]
      [] t.kind = "num" -> [value |-> t.text, isNil |-> FALSE, dataType |-> "Number"]
      [] t.kind = "lit" ->
            IF t.text = nullLiteral
            THEN [value |-> <<>>, isNil |-> TRUE, dataType |-> "Null"]
            ELSE [value |-> t.text, isNil |-> FALSE, dataType |-> "Boolean"]
      [] t.kind = "arr" -> [value |-> Val(t, s), isNil |-> FALSE, dataType |-> "Array"]
      [] t.kind = "obj" -> [value |-> Val(t, s), isNil |-> FALSE, dataType |-> "Object"]

Same(r, x) ==
    r.value = x.value /\ r.isNil = x.isNil /\ r.dataType = x.dataType

RECURSIVE KeysOutsideArrays(_), AllKeys(_)
\* The keys of the object members that are in no array.
KeysOutsideArrays(t) ==
    IF t.kind # "obj" THEN {}
    ELSE UNION {{t.kids[n].key} \cup KeysOutsideArrays(t.kids[n].val)
                : n \in 1..Len(t.kids)}

AllKeys(t) ==
    UNION {(IF t.kind = "obj" THEN {t.kids[n].key} ELSE {}) \cup AllKeys(t.kids[n].val)
           : n \in 1..Len(t.kids)}

KeysOnlyInArrays(t) == AllKeys(t) \ KeysOutsideArrays(t)

----------------------------------------------------------------------------
(* The claims *)

TopLevelArray == WellFormed /\ keys = <<>> /\ doc.tree.kind = "arr"

\* The visitor was invoked once per element of the top-level array, in
\* order, each time with that element's slice and type and no error.
VisitedEachElement ==
    /\ Len(calls) = Len(doc.tree.kids)
    /\ \A n \in 1..Len(calls) :
          /\ Same(calls[n], Extracted(doc.tree.kids[n].val, doc.style))
          /\ calls[n].err = "nil"

\* C1: when ArrayEach has returned for a well-formed, non-empty array, the
\* visitor was invoked once per element, in buffer order, with the element's
\* slice and type, and ArrayEach returned no error.
C1_ArrayEachVisitsAllAndReturnsNil ==
    (pc = "done" /\ TopLevelArray /\ Len(doc.tree.kids) > 0)
        => (VisitedEachElement /\ aeErr = "nil")

\* C2: whenever Get succeeds for a non-empty key path on a well-formed
\* object, the path exists by object membership and the slice and type
\* returned are those of the value at that path.
C2_GetReturnsValueAtPath ==
    (GetReturned /\ WellFormed /\ doc.tree.kind = "obj" /\ Len(keys) > 0
     /\ ret.err = "nil")
        => (/\ Lookup(doc.tree, keys) # NoTree
            /\ Same(ret, Extracted(Lookup(doc.tree, keys), doc.style)))

\* C3: every call of Get comes to an end: the search returns and Get
\* returns (or the call stops on a panic).
C3_GetTerminates == <>(pc \notin {"searchKeys", "value"})

\* The number of whitespace bytes the buffer starts with.
LeadLen(d) ==
    CHOOSE k \in 0..Len(d) :
        /\ \A j \in 0..(k - 1) : At(d, j) \in Whitespace
        /\ k = Len(d) \/ At(d, k) \notin Whitespace

\* Where the token that starts at k stops: the first terminator, or the end.
TokenStop(d, k) ==
    CHOOSE e \in k..Len(d) :
        /\ \A j \in k..(e - 1) : At(d, j) \notin TokenTerminators
        /\ e = Len(d) \/ At(d, e) \in TokenTerminators

\* Get was called with no keys on whitespace followed by a number token.
NumberAfterWhitespace ==
    /\ keys = <<>>
    /\ GetReturned
    /\ LeadLen(data) < Len(data)
    /\ At(data, LeadLen(data)) \in Digits \cup {"-"}

NumberToken == Slice(data, LeadLen(data), TokenStop(data, LeadLen(data)))

NumberRunsToEnd == TokenStop(data, LeadLen(data)) = Len(data)

\* C4 as claimed: Get with no keys on whitespace followed by a number token
\* that runs to the end of the buffer returns the token, Number, the index
\* just past the token and no error.
C4_NumberAtEndOfBuffer ==
    (NumberAfterWhitespace /\ NumberRunsToEnd)
        => ret = Result(NumberToken, FALSE, "Number", Len(data), "nil")

\* C4 as amended: Get with no keys on whitespace followed by a number token
\* returns the token, Number, the index just past the token and no error
\* when a token terminator follows the token; when the token runs to the end
\* of the buffer it returns a nil slice, Unknown, -1 and MalformedNumberError.
C4_NumberNeedsTerminator ==
    NumberAfterWhitespace
        => ret = IF NumberRunsToEnd
                 THEN Failure("Unknown", "MalformedNumberError")
                 ELSE Result(NumberToken, FALSE, "Number",
                             TokenStop(data, LeadLen(data)), "nil")

C4_Witness ==
    /\ NumberAfterWhitespace
    /\ data = <<SPACE, SPACE, "4", "2">>
    /\ ret.err = "MalformedNumberError"

\* C5 as claimed: for a well-formed buffer and a path Get resolves, GetValue
\* of the slice Get returned succeeds with the same type and content, for
\* every value type.
C5_ReparseAnyType ==
    (pc = "reparsed" /\ WellFormed)
        => (re.err = "nil" /\ Same(re, ret))

\* C5 as amended: for a well-formed buffer and a path Get resolves to an
\* Array or an Object, GetValue of the slice Get returned succeeds with the
\* same type and the same content.
C5_ReparseArrayOrObject ==
    (pc = "reparsed" /\ WellFormed /\ ret.dataType \in {"Array", "Object"})
        => (re.err = "nil" /\ Same(re, ret))

C5_Witness ==
    /\ pc = "reparsed"
    /\ WellFormed
    /\ Len(keys) = 2
    /\ ret.dataType = "Object"
    /\ Len(ret.value) > 2
    /\ re.value = ret.value

\* C6: whenever Get succeeds, 0 < offset <= len(data); an Array, Object,
\* Number or Boolean slice is data[offset-len(slice) : offset]; a String
\* slice is data[offset-1-len(slice) : offset-1] and data[offset-1] is the
\* closing quote.
C6_OffsetAndSliceInBuffer ==
    (GetReturned /\ ret.err = "nil")
        => (/\ 0 < ret.offset
            /\ ret.offset <= Len(data)
            /\ ret.dataType \in {"Array", "Object", "Number", "Boolean"}
                  => /\ ret.offset - Len(ret.value) >= 0
                     /\ ret.value = Slice(data, ret.offset - Len(ret.value), ret.offset)
            /\ ret.dataType = "String"
                  => /\ ret.offset - 1 - Len(ret.value) >= 0
                     /\ ret.value = Slice(data, ret.offset - 1 - Len(ret.value),
                                          ret.offset - 1)
                     /\ At(data, ret.offset - 1) = QUOTE)

C6_Witness ==
    /\ GetReturned
    /\ ret.err = "nil"
    /\ Len(keys) = 2
    /\ doc.style = 1
    /\ ret.dataType = "String"
    /\ ret.offset < Len(data)

\* A segment of the key path is the key of no object member outside arrays.
SegmentNotOutsideArrays ==
    /\ WellFormed
    /\ \E n \in 1..Len(keys) : keys[n] \notin KeysOutsideArrays(doc.tree)

\* C7: for a well-formed buffer in which a segment of the key path is no key
\* outside the arrays (it exists inside an array only, or not at all), Get
\* returns NotExist, KeyPathNotFoundError, a nil slice and offset -1.
C7_NoKeyMatchInsideArray ==
    (GetReturned /\ SegmentNotOutsideArrays)
        => ret = Result(<<>>, TRUE, "NotExist", -1, "KeyPathNotFoundError")

C7_Witness ==
    /\ GetReturned
    /\ <<"b">> \in KeysOnlyInArrays(doc.tree)
    /\ keys = <<<<"a">>, <<"b">>>>
    /\ Member(doc.tree, <<"a">>).kind = "arr"
    /\ ret.dataType = "NotExist"

\* C8: on every invocation of the visitor, with or without an error, the
\* offset passed is the position in the buffer just after the element: it is
\* past the element's first byte and, for an element that classified, the
\* element's slice ends there (a String's closing quote, the four bytes of
\* a null).
C8_VisitorOffsetAfterElement ==
    \A n \in 1..Len(calls) :
        LET c == calls[n]
        IN  /\ c.offset > c.begin
            /\ c.offset <= Len(data)
            /\ (c.err = "nil" /\ c.dataType \notin {"String", "Null"})
                  => c.value = Slice(data, c.begin, c.offset)
            /\ (c.err = "nil" /\ c.dataType = "String")
                  => c.value = Slice(data, c.begin + 1, c.offset - 1)
            /\ (c.err = "nil" /\ c.dataType = "Null")
                  => nullLiteral = Slice(data, c.begin, c.offset)

\* The number of backslashes immediately before index n.
RECURSIVE BackslashesBefore(_, _)
BackslashesBefore(d, n) ==
    IF n = 0 \/ At(d, n - 1) # BACKSLASH THEN 0
    ELSE 1 + BackslashesBefore(d, n - 1)

ClosingQuotes(d) ==
    {n \in 0..(Len(d) - 1) : At(d, n) = QUOTE /\ BackslashesBefore(d, n) % 2 = 0}

FirstClosingQuote(d) ==
    IF ClosingQuotes(d) = {} THEN -1
    ELSE 1 + CHOOSE n \in ClosingQuotes(d) : \A m \in ClosingQuotes(d) : n <= m

\* A forward scanner: a backslash sets the escape flag, the byte after it
\* is skipped and clears it.
RECURSIVE ForwardScan(_, _, _)
ForwardScan(d, n, escaped) ==
    IF n >= Len(d) THEN -1
    ELSE IF escaped THEN ForwardScan(d, n + 1, FALSE)
    ELSE IF At(d, n) = BACKSLASH THEN ForwardScan(d, n + 1, TRUE)
    ELSE IF At(d, n) = QUOTE THEN n + 1
    ELSE ForwardScan(d, n + 1, FALSE)

\* C9: stringEnd returns one past the first quote that an even number of
\* backslashes precedes, -1 when there is none, and this is the result of
\* the forward scanner with an escape flag.
C9_StringEndEvenBackslashes ==
    pc = "stringEnd.done"
        => (/\ offset = FirstClosingQuote(data)
            /\ offset = ForwardScan(data, 0, FALSE))

C9_Witness ==
    /\ pc = "stringEnd.done"
    /\ data = <<BACKSLASH, QUOTE, BACKSLASH, BACKSLASH, QUOTE>>
    /\ offset = 5

\* C10: every index the search reads is in [0, len(data)): the cursor is
\* never negative and the call never stops on an index out of range.
C10_IndexInRange == i >= 0 /\ pc # "panic"

====
